---------------------------- MODULE Spec2Model ----------------------------
(***************************************************************************)
(* The 3D viewer of the room-scan application: the size-adaptive camera    *)
(* controls, the entrance animation, the model load effect with its scene  *)
(* cleanup, and the lighting presets, as one state machine.                *)
(*                                                                         *)
(* Numbers are fixed-point integers:                                       *)
(*   lengths      in 1/100 world unit   (0.01 -> 1, 2 -> 200, 20 -> 2000)  *)
(*   angles       in 1/10000 radian     (pi/2 -> 15708, 0.01 -> 100)       *)
(*   unit vectors and sines in 1/10000  (1.0 -> 10000)                     *)
(*   speeds       in 1/10000 per pixel  (0.003 -> 30, 0.008 -> 80)         *)
(*   time         in milliseconds                                          *)
(***************************************************************************)
EXTENDS Integers, Sequences, FiniteSets, TLC

(***************************************************************************)
(* Bounds of the model.                                                    *)
(***************************************************************************)
\* the clock advances in steps of TickMs milliseconds, at most MaxTicks times
TickMs == 2000
MaxTicks == 3
\* at most MaxRuns entrance animations are started
MaxRuns == 2
\* at most MaxLoads runs of the load effect (scan selections)
MaxLoads == 2
\* at most MaxInputs mouse, wheel and lighting-button events that the
\* handlers act on
MaxInputs == 2
\* at most MaxClicks clicks on the lighting buttons where they are studied alone
MaxClicks == 4
\* at most MaxChats requests to /api/chat
MaxChats == 2
\* at most MaxFetches requests to /api/scans and MaxUploads uploaded files
MaxFetches == 4
MaxUploads == 2

(***************************************************************************)
(* Scales and literal values of the source.                                *)
(***************************************************************************)
PosScale == 100
Unit == 10000
\* Math.PI
Pi == 31416
HalfPi == Pi \div 2
TwoPi == 2 * Pi
\* null (a cleared ref, a cleared frame handle, no scan)
NULL == 0

Max(a, b) == IF a >= b THEN a ELSE b
Min(a, b) == IF a <= b THEN a ELSE b

Vec(x, y, z) == [x |-> x, y |-> y, z |-> z]
Euler(x, y, z, order) == [x |-> x, y |-> y, z |-> z, order |-> order]

\* Math.sqrt, rounded down
RECURSIVE SqrtSearch(_, _, _)
SqrtSearch(n, lo, hi) ==
    IF lo >= hi THEN lo
    ELSE LET mid == (lo + hi + 1) \div 2
         IN IF mid * mid <= n THEN SqrtSearch(n, mid, hi)
                              ELSE SqrtSearch(n, lo, mid - 1)
ISqrt(n) == SqrtSearch(n, 0, 40000)

\* fifth root, rounded down (for Math.pow with exponents 1.2 and 1.8)
RECURSIVE Root5Search(_, _, _)
Root5Search(n, lo, hi) ==
    IF lo >= hi THEN lo
    ELSE LET mid == (lo + hi + 1) \div 2
         IN IF mid * mid * mid * mid * mid <= n THEN Root5Search(n, mid, hi)
                                                ELSE Root5Search(n, lo, mid - 1)
Root5(n) == Root5Search(n, 0, 70)

\* Math.sin on [0, pi] (Bhaskara's rational approximation, exact at 0, pi/2, pi)
SinHalf(x) ==
    LET p == x * (Pi - x)
    IN Min(Unit, p \div ((Pi * Pi) \div 32000 - p \div 40000))
Sin(a) ==
    LET t == a % TwoPi
    IN IF t <= Pi THEN SinHalf(t) ELSE 0 - SinHalf(t - Pi)
Cos(a) == Sin(a + HalfPi)

\* THREE.Vector3
VAdd(a, b) == Vec(a.x + b.x, a.y + b.y, a.z + b.z)
VSub(a, b) == Vec(a.x - b.x, a.y - b.y, a.z - b.z)
VCross(a, b) ==
    Vec(a.y * b.z - a.z * b.y, a.z * b.x - a.x * b.z, a.x * b.y - a.y * b.x)
VLength(v) == ISqrt(v.x * v.x + v.y * v.y + v.z * v.z)
\* normalize(): divideScalar(length() || 1); the result is in 1/10000
VNormalize(v) ==
    LET len == VLength(v)
    IN IF len = 0 THEN Vec(0, 0, 0)
       ELSE Vec((v.x * Unit) \div len, (v.y * Unit) \div len, (v.z * Unit) \div len)
\* multiplyScalar of a 1/10000 vector by num/den
VScale(v, num, den) ==
    Vec((v.x * num) \div den, (v.y * num) \div den, (v.z * num) \div den)

\* new THREE.Vector3(0, 0, -1).applyEuler(rotation), in 1/10000
Forward(rotation) ==
    LET sx == Sin(rotation.x)
        cx == Cos(rotation.x)
        sy == Sin(rotation.y)
        cy == Cos(rotation.y)
    IN IF rotation.order = "YXZ"
       THEN Vec((0 - cx * sy) \div Unit, sx, (0 - cx * cy) \div Unit)
       ELSE Vec(0 - sy, (cy * sx) \div Unit, (0 - cy * cx) \div Unit)

(***************************************************************************)
(* CameraControls.ts: createCameraControls.  A controls value is the       *)
(* record [position, rotation, modelSize]; every method is an operator     *)
(* from the controls before the call to the controls after it.  update()   *)
(* copies the stored pose onto the render camera (CameraOf).               *)
(***************************************************************************)
InitialControls ==
    [position |-> Vec(0, 1 * PosScale, 0),
     rotation |-> Euler(0, 0 - HalfPi, 0, "YXZ"),
     modelSize |-> 1 * PosScale]

\* update(): camera.position.copy(position); camera.rotation.copy(rotation)
CameraOf(c) == [position |-> c.position, rotation |-> c.rotation]

\* setModelSize(size): modelSize = Math.max(0.1, size)
ModelSizeFloor == 10
\* setModelSize storing the size it is given
SetModelSizeNoFloor(c, size) == [c EXCEPT !.modelSize = size]
SetModelSize(c, size) == [c EXCEPT !.modelSize = Max(ModelSizeFloor, size)]

\* Math.pow(s, 1.5), Math.pow(s, 1.2), Math.pow(s, 1.8) for s < 1, in 1/10000
Pow15(s) == s * ISqrt(s * 100)
Pow12(s) == s * 2 * Root5(s * 3125000)
Pow18(s) == s * Root5(100 * s * s * s * s)

\* pan(): the size-dependent pan speed, clamped to [0.0005, 0.015]
BasePanSpeed == 30
MinPanSpeed == 5
MaxPanSpeed == 150
\* the pan speed of the linear branch alone, without the clamp
PanSpeedLinear(modelSize) == (BasePanSpeed * Max(1, modelSize)) \div PosScale
PanSpeed(modelSize) ==
    LET sizeMultiplier == Max(1, modelSize)
        raw == IF sizeMultiplier < 50
               THEN (BasePanSpeed * sizeMultiplier * sizeMultiplier) \div 20000
               ELSE IF sizeMultiplier < 100
               THEN (BasePanSpeed * (2000 + (8 * Pow15(sizeMultiplier)) \div 10)) \div Unit
               ELSE (BasePanSpeed * sizeMultiplier) \div PosScale
    IN Max(MinPanSpeed, Min(MaxPanSpeed, raw))

\* rotate(): the size-dependent rotation speed, clamped to [0.002, 0.015]
BaseRotationSpeed == 80
MinRotationSpeed == 20
MaxRotationSpeed == 150
RotationSpeed(modelSize) ==
    LET sizeMultiplier == Max(1, modelSize)
        raw == IF sizeMultiplier < 50
               THEN (BaseRotationSpeed * 4 * Pow18(sizeMultiplier)) \div (10 * Unit)
               ELSE IF sizeMultiplier < 100
               THEN (BaseRotationSpeed * (2500 + (75 * Pow12(sizeMultiplier)) \div 100)) \div Unit
               ELSE (BaseRotationSpeed * sizeMultiplier) \div PosScale
    IN Max(MinRotationSpeed, Min(MaxRotationSpeed, raw))

\* moveForward(distance): position += forward * distance
MoveForward(c, distance) ==
    [c EXCEPT !.position = VAdd(c.position, VScale(Forward(c.rotation), distance, Unit))]

\* pan(deltaX, deltaY): position += right * (-deltaX * panSpeed) + up * (-deltaY * panSpeed)
Pan(c, deltaX, deltaY) ==
    LET forward == Forward(c.rotation)
        right == VNormalize(VCross(forward, Vec(0, 1, 0)))
        up == VNormalize(VScale(VCross(right, forward), 1, Unit))
        panSpeed == PanSpeed(c.modelSize)
        panX == VScale(right, (0 - deltaX) * panSpeed, 100 * Unit)
        panY == VScale(up, (0 - deltaY) * panSpeed, 100 * Unit)
    IN [c EXCEPT !.position = VAdd(VAdd(c.position, panX), panY)]

\* rotate(deltaX, deltaY): yaw and pitch, the pitch clamped to +-(pi/2 - 0.01)
PitchMargin == 100
\* rotate without the clamp of the pitch
RotateUnclamped(c, deltaX, deltaY) ==
    [c EXCEPT !.rotation.y = c.rotation.y - deltaX * RotationSpeed(c.modelSize),
              !.rotation.x = c.rotation.x - deltaY * RotationSpeed(c.modelSize)]
Rotate(c, deltaX, deltaY) ==
    LET rotationSpeed == RotationSpeed(c.modelSize)
        pitch == c.rotation.x - deltaY * rotationSpeed
    IN [c EXCEPT !.rotation.y = c.rotation.y - deltaX * rotationSpeed,
                 !.rotation.x = Max(0 - HalfPi + PitchMargin,
                                    Min(HalfPi - PitchMargin, pitch))]

\* onWheel: the distance handed to moveForward
BaseZoomSpeed == 3
ZoomDistance(c, deltaY) ==
    LET sizeMultiplier == Max(ModelSizeFloor, c.modelSize)
        zoomDirection == IF deltaY > 0 THEN 0 - 1 ELSE 1
    IN zoomDirection *
         ((BaseZoomSpeed * sizeMultiplier * Max(10, VLength(c.position))) \div Unit)

(***************************************************************************)
(* EntranceAnimation.ts: playEntranceAnimation.  A run is the closure of   *)
(* one call: its startTime, its start and target positions and its         *)
(* animationFrameId (NULL, or the handle of the frame callback it last     *)
(* requested; a run has at most one callback pending, so the handle is     *)
(* modelled by the run's number).  progress, completions and stopped       *)
(* record what the run did.                                                *)
(***************************************************************************)
animationDuration == 3500

\* targetPosition and startPosition of playEntranceAnimation
TargetPosition(isSmallModel) ==
    IF isSmallModel THEN Vec(0, 1, 0) ELSE Vec(0, 2 * PosScale, 0)
StartPosition(isSmallModel) ==
    IF isSmallModel THEN Vec(0, 50, 0) ELSE Vec(0, 20 * PosScale, 0)

\* elapsed / animationDuration without the clamp at 1
ProgressUnclamped(elapsed) == (elapsed * Unit) \div animationDuration

\* progress = Math.min(elapsed / animationDuration, 1), in 1/10000
Progress(elapsed) == Min((elapsed * Unit) \div animationDuration, Unit)

\* easedProgress: quadratic ease-in, then quadratic ease-out, in 1/10000
EasedProgress(progress) ==
    IF progress < Unit \div 2
    THEN (2 * progress * progress) \div Unit
    ELSE Unit - ((2 * Unit - 2 * progress) * (2 * Unit - 2 * progress)) \div (2 * Unit)

\* currentPosition.lerpVectors(startPosition, targetPosition, easedProgress)
LerpVectors(a, b, t) ==
    Vec(a.x + ((b.x - a.x) * t) \div Unit,
        a.y + ((b.y - a.y) * t) \div Unit,
        a.z + ((b.z - a.z) * t) \div Unit)

\* A position straight above the origin, from which the look direction
\* toward (0, 0, 0) is (0, -1, 0).  Every start, target and interpolated
\* position of the animation, and every camera position from which the
\* viewer calls lookAt(0, 0, 0), is of this kind.
AboveOrigin(position) == position.x = 0 /\ position.z = 0 /\ position.y > 0

\* new Euler().setFromQuaternion(setFromUnitVectors((0,0,-1), direction)) with
\* direction = normalize((0,0,0) - currentPosition): for (0,-1,0) the
\* quaternion is the quarter turn about x, whose XYZ Euler angles are (-pi/2, 0, 0)
StepRotation(currentPosition) ==
    IF AboveOrigin(currentPosition)
    THEN Euler(0 - HalfPi, 0, 0, "XYZ")
    ELSE Euler(0, 0, 0, "XYZ")

\* the completion branch: yaw = atan2(direction.x, direction.z),
\* pitch = asin(-direction.y), finalRotation = Euler(pitch, yaw, 0, 'YXZ');
\* for direction (0,-1,0): yaw = atan2(0, 0) = 0 and pitch = asin(1) = pi/2
FinalRotation(targetPosition) ==
    IF AboveOrigin(targetPosition)
    THEN Euler(HalfPi, 0, 0, "YXZ")
    ELSE Euler(0, 0, 0, "YXZ")

\* camera.lookAt(0, 0, 0) read back through camera.rotation.  From a position
\* straight above the origin the view axis is parallel to camera.up, and
\* Matrix4.lookAt nudges it by 0.0001 before building the basis: the Euler
\* angles are (-(pi/2 - 0.0001), 0, 0) in the rotation's own order.
LookAtNudge == 1
LookAtOrigin(cam) ==
    IF AboveOrigin(cam.position)
    THEN [cam EXCEPT !.rotation = Euler(0 - HalfPi + LookAtNudge, 0, 0, cam.rotation.order)]
    ELSE cam

NewRun(isSmallModel, startTime) ==
    [startTime |-> startTime,
     startPosition |-> StartPosition(isSmallModel),
     targetPosition |-> TargetPosition(isSmallModel),
     animationFrameId |-> NULL,
     progress |-> 0,
     completions |-> 0,
     stopped |-> FALSE]

\* One call of animate() of `run` at time t, on controls c: the progress it
\* computes and the controls it leaves (after the completion branch when
\* progress has reached 1).
Animate(run, c, t) ==
    LET elapsed == t - run.startTime
        progress == Progress(elapsed)
        currentPosition ==
            LerpVectors(run.startPosition, run.targetPosition, EasedProgress(progress))
        stepped == [c EXCEPT !.position = currentPosition,
                             !.rotation = StepRotation(currentPosition)]
    IN [progress |-> progress,
        complete |-> ~(progress < Unit),
        controls |-> IF progress < Unit
                     THEN stepped
                     ELSE [stepped EXCEPT !.position = run.targetPosition,
                                          !.rotation = FinalRotation(run.targetPosition)]]

\* a completion callback that keeps the rotation animate() ended with
OnAnimationCompleteNoLookAt(c) == c

\* onAnimationComplete of startEntranceAnimation: the camera looks at the
\* origin and the controls take over the camera's rotation
OnAnimationComplete(c) ==
    [c EXCEPT !.rotation = LookAtOrigin(CameraOf(c)).rotation]

(***************************************************************************)
(* The scans the viewer is given.  A scan descriptor carries, for its      *)
(* modelPath, what the string probes of the load effect return (blob:      *)
(* prefix, last dot-separated piece, substrings found, the match of the    *)
(* extension pattern), and, for the object its loader yields, the          *)
(* bounding-box size and the meshes with their geometries, materials and   *)
(* textures ("" is an empty texture slot).                                 *)
(***************************************************************************)
NoTextures ==
    [map |-> "", normalMap |-> "", roughnessMap |-> "", metalnessMap |-> "", envMap |-> ""]

Scans ==
    { \* a small GLB: two meshes sharing one textured material
      [id |-> "chair", blob |-> FALSE, ext |-> "glb", fileFormat |-> "",
       includes |-> {".glb"}, pattern |-> "glb", hasMtl |-> FALSE,
       size |-> Vec(40, 30, 20),
       children |-> << [type |-> "Mesh", geometry |-> "seatGeo", material |-> <<"wood">>],
                       [type |-> "Mesh", geometry |-> "legGeo", material |-> <<"wood">>] >>,
       materials |-> [m \in {"wood"} |->
                        [NoTextures EXCEPT !.map = "woodMap", !.normalMap = "woodNormal"]]],
      \* a large OBJ with materials: a multi-material mesh and a line object
      [id |-> "room", blob |-> FALSE, ext |-> "obj", fileFormat |-> "",
       includes |-> {".obj"}, pattern |-> "obj", hasMtl |-> TRUE,
       size |-> Vec(500, 300, 400),
       children |-> << [type |-> "Mesh", geometry |-> "wallGeo", material |-> <<"paint", "floor">>],
                       [type |-> "LineSegments", geometry |-> "wireGeo", material |-> <<"wire">>] >>,
       materials |-> [m \in {"paint", "floor", "wire"} |->
                        IF m = "floor" THEN [NoTextures EXCEPT !.map = "floorMap"]
                        ELSE NoTextures]],
      \* an OBJ without materials whose bounding box has no x-extent
      [id |-> "flat", blob |-> FALSE, ext |-> "obj", fileFormat |-> "",
       includes |-> {".obj"}, pattern |-> "obj", hasMtl |-> FALSE,
       size |-> Vec(0, 200, 200),
       children |-> << [type |-> "Mesh", geometry |-> "planeGeo", material |-> <<"plain">>] >>,
       materials |-> [m \in {"plain"} |-> NoTextures]],
      \* a file that is no model
      [id |-> "notes", blob |-> FALSE, ext |-> "txt", fileFormat |-> "",
       includes |-> {}, pattern |-> "txt", hasMtl |-> FALSE,
       size |-> Vec(0, 0, 0),
       children |-> << >>,
       materials |-> [m \in {} |-> NoTextures]] }

\* Further scans a viewer can be given: uploads (blob URLs, with the
\* fileFormat handleFileUpload derives from the file name), served paths
\* without a file extension, and a small OBJ.
MoreScans ==
    { \* an uploaded GLB of largest dimension 1.0
      [id |-> "upload", blob |-> TRUE, ext |-> "blob:http://localhost/550e8400",
       fileFormat |-> "glb", includes |-> {}, pattern |-> "", hasMtl |-> FALSE,
       size |-> Vec(100, 50, 50),
       children |-> << [type |-> "Mesh", geometry |-> "cupGeo", material |-> <<"glaze">>] >>,
       materials |-> [m \in {"glaze"} |-> NoTextures]],
      \* a served path without extension whose fileFormat says glb
      [id |-> "export", blob |-> FALSE, ext |-> "/scans/export/model",
       fileFormat |-> "glb", includes |-> {}, pattern |-> "", hasMtl |-> FALSE,
       size |-> Vec(200, 100, 100),
       children |-> << [type |-> "Mesh", geometry |-> "boxGeo", material |-> <<"grey">>] >>,
       materials |-> [m \in {"grey"} |-> NoTextures]],
      \* a small served OBJ (largest dimension 0.4) with valid bounds
      [id |-> "vase", blob |-> FALSE, ext |-> "obj", fileFormat |-> "",
       includes |-> {".obj"}, pattern |-> "obj", hasMtl |-> FALSE,
       size |-> Vec(30, 40, 30),
       children |-> << [type |-> "Mesh", geometry |-> "vaseGeo", material |-> <<"clay">>] >>,
       materials |-> [m \in {"clay"} |-> NoTextures]],
      \* a blob URL that names an .obj file, without fileFormat
      [id |-> "blobobj", blob |-> TRUE, ext |-> "obj", fileFormat |-> "",
       includes |-> {".obj"}, pattern |-> "obj", hasMtl |-> FALSE,
       size |-> Vec(400, 300, 400),
       children |-> << [type |-> "Mesh", geometry |-> "hallGeo", material |-> <<"stone">>] >>,
       materials |-> [m \in {"stone"} |-> NoTextures]],
      \* a served OBJ that is a single point: its bounding box has size 0
      [id |-> "dot", blob |-> FALSE, ext |-> "obj", fileFormat |-> "",
       includes |-> {".obj"}, pattern |-> "obj", hasMtl |-> FALSE,
       size |-> Vec(0, 0, 0),
       children |-> << [type |-> "Points", geometry |-> "dotGeo", material |-> <<"dotMat">>] >>,
       materials |-> [m \in {"dotMat"} |-> NoTextures]],
      \* a blob URL with neither fileFormat nor any extension in it
      [id |-> "blobraw", blob |-> TRUE, ext |-> "blob:http://localhost/6ba7b810",
       fileFormat |-> "", includes |-> {}, pattern |-> "", hasMtl |-> FALSE,
       size |-> Vec(0, 0, 0),
       children |-> << >>,
       materials |-> [m \in {} |-> NoTextures]] }

AllScans == Scans \cup MoreScans

ScanIds == {s.id : s \in AllScans}
ScanById(id) == CHOOSE s \in AllScans : s.id = id

\* load effect: the fileExtension the format dispatch works with
\* ("" stands for undefined)
FileExtension(s) ==
    IF s.blob
    THEN IF s.fileFormat # "" THEN s.fileFormat
         ELSE IF ".obj" \in s.includes THEN "obj"
         ELSE IF ".glb" \in s.includes \/ ".gltf" \in s.includes THEN "glb"
         ELSE s.pattern
    ELSE s.ext

\* Math.max(size.x, size.y, size.z)
MaxDimension(size) == Max(size.x, Max(size.y, size.z))
\* loadGLTFModel / loadOBJModelFromObject: maxSize < 3.0
SmallModelThreshold == 300
IsSmallModel(size) == MaxDimension(size) < SmallModelThreshold

(***************************************************************************)
(* Disposal.  The names of the geometries, materials and textures on       *)
(* which dispose() is called, one entry per call.                          *)
(***************************************************************************)
TextureSlots == <<"map", "normalMap", "roughnessMap", "metalnessMap", "envMap">>

RECURSIVE Flatten(_)
Flatten(seqs) == IF seqs = << >> THEN << >> ELSE Head(seqs) \o Flatten(Tail(seqs))

SelectNonEmpty(names) == SelectSeq(names, LAMBDA n : n # "")

\* if (mat.map) mat.map.dispose() ... if (mat.envMap) mat.envMap.dispose()
TextureDisposals(mat) ==
    SelectNonEmpty([i \in 1..Len(TextureSlots) |-> mat[TextureSlots[i]]])

\* the traverse callback of the model cleanup, for one child
ChildDisposals(s, child) ==
    IF child.type = "Mesh"
    THEN <<child.geometry>> \o child.material
           \o Flatten([i \in 1..Len(child.material) |->
                         TextureDisposals(s.materials[child.material[i]])])
    ELSE << >>

\* modelRef.current.traverse(...) of the load effect
ModelDisposals(s) ==
    Flatten([i \in 1..Len(s.children) |-> ChildDisposals(s, s.children[i])])

\* the scene sweep, for one object it collected: geometry and materials of a Mesh
SweepChildDisposals(s, child) ==
    IF child.type = "Mesh" THEN <<child.geometry>> \o child.material ELSE << >>
SweepDisposals(s) ==
    Flatten([i \in 1..Len(s.children) |-> SweepChildDisposals(s, s.children[i])])

Count(calls, name) == Cardinality({i \in 1..Len(calls) : calls[i] = name})

\* every geometry, material and texture of a scan's object
Geometries(s) == {s.children[i].geometry : i \in 1..Len(s.children)}
MaterialsOf(s) == DOMAIN s.materials
Textures(s) ==
    {s.materials[m][TextureSlots[i]] : m \in DOMAIN s.materials, i \in 1..Len(TextureSlots)}
      \ {""}
Resources(s) == Geometries(s) \cup MaterialsOf(s) \cup Textures(s)

(***************************************************************************)
(* Lighting.ts: the six lights of createLights, in the order they are      *)
(* added to the group, with intensities in 1/10.                           *)
(***************************************************************************)
LightTypes ==
    <<"Ambient", "Directional", "Directional", "Directional", "Directional", "Hemisphere">>
CreateLights == <<8, 10, 4, 3, 5, 6>>

\* a preset that adjusts the intensity a light has
LightIntensityRelative(mode, type, index, old) ==
    IF mode = "bright" THEN old + 4
    ELSE IF mode = "studio" THEN old - 2
    ELSE old

\* updateLighting(lights, mode); index is the 0-based index in lights.children
LightIntensity(mode, type, index, old) ==
    IF mode = "bright"
    THEN IF type = "Ambient" THEN 12
         ELSE IF type = "Directional" THEN (IF index = 0 THEN 15 ELSE 8)
         ELSE IF type = "Hemisphere" THEN 10 ELSE old
    ELSE IF mode = "studio"
    THEN IF type = "Ambient" THEN 6
         ELSE IF type = "Directional" THEN (IF index = 0 THEN 20 ELSE 10)
         ELSE IF type = "Hemisphere" THEN 4 ELSE old
    ELSE IF type = "Ambient" THEN 8
         ELSE IF type = "Directional"
              THEN (IF index = 0 THEN 10 ELSE IF index = 1 THEN 4 ELSE 3)
         ELSE IF type = "Hemisphere" THEN 6 ELSE old
UpdateLighting(ls, mode) ==
    [i \in 1..Len(ls) |-> LightIntensity(mode, LightTypes[i], i - 1, ls[i])]

(***************************************************************************)
(* The state of one viewer (ModelViewer/ModelViewer.tsx).                  *)
(***************************************************************************)
VARIABLES
    now,                 \* Date.now(), in ms since the viewer was created
    scan,                \* the id of the scan prop; NoScan before the first load effect
    controls,            \* controlsRef.current: the stored camera pose and modelSize
    camera,              \* cameraRef.current: position and rotation of the render camera
    isAnimating,         \* the isAnimating state of useModelViewer
    isAnimatingRef,      \* isAnimatingRef.current
    animationCleanupRef, \* NULL, or the run whose stop handle the ref holds
    runs,                \* the runs of playEntranceAnimation started so far
    rafPending,          \* frame callbacks requested for the next frame (run numbers)
    frameBatch,          \* callbacks of the frame in progress that have not run yet
    scene,               \* the children of the scene
    modelRef,            \* NULL, or the node modelRef.current refers to
    loadScan,            \* loadScan[i]: the scan of the i-th run of the load effect
    loads,               \* loader requests in flight
    disposeCount,        \* dispose() calls per geometry, material and texture
    isLoading,
    error,               \* "null", or the error message shown
    lights,              \* the intensities of lightsRef.current.children
    lightingMode,
    mouse,               \* isMouseDown, isRightMouseDown, lastMouseX, lastMouseY
    nInputs,             \* mouse, wheel and lighting events the handlers acted on so far
    messages,            \* ChatInterface: the messages shown, [role, content]
    chatIsLoading,       \* ChatInterface: isLoading
    pending,             \* the POST /api/chat requests in flight
    responses,           \* the responses of /api/chat so far, [status, error, response]
    modelCalls,          \* calls of openai.chat.completions.create so far
    openai,              \* api/chat/route.ts: whether the OpenAI client was created
    disk,                \* the server's public/scans: [exists, entries]
    scans,               \* page.tsx: the scans of the dropdown list
    selectedScan,        \* page.tsx: the selected scan, NoSelection for null
    uploadError,         \* page.tsx: "null", or the upload error shown
    fetches,             \* runs of fetchScans awaiting their response, each with the
                         \* selectedScan its closure holds
    nFetches,            \* runs of the fetchScans effect so far
    nUploads             \* files accepted by handleFileUpload so far

chatVars == <<messages, chatIsLoading, pending, responses, modelCalls, openai>>
viewerVars ==
    <<now, scan, controls, camera, isAnimating, isAnimatingRef, animationCleanupRef,
      runs, rafPending, frameBatch, scene, modelRef, loadScan, loads, disposeCount,
      isLoading, error, lights, lightingMode, mouse, nInputs>>
pageVars == <<disk, scans, selectedScan, uploadError, fetches, nFetches, nUploads>>
vars == <<viewerVars, chatVars, pageVars>>

\* no message sent, no request posted; the server has its API key
ChatInitial ==
    /\ messages = << >>
    /\ chatIsLoading = FALSE
    /\ pending = << >>
    /\ responses = << >>
    /\ modelCalls = 0

\* page.tsx: the state of Home at its first render, and the fetchScans effect
\* of that render with its request in flight.  isUploading is set and cleared
\* inside one call of handleFileUpload and is false between handlers.
NoSelection == [id |-> ""]
PageInitial ==
    /\ scans = << >>
    /\ selectedScan = NoSelection
    /\ uploadError = "null"
    /\ fetches = <<[selectedScan |-> NoSelection]>>
    /\ nFetches = 1
    /\ nUploads = 0

animVars == <<isAnimating, isAnimatingRef, animationCleanupRef, runs, rafPending>>
sceneVars == <<scene, modelRef, loadScan, loads, disposeCount, isLoading, error>>
lightVars == <<lights, lightingMode>>

NoScan == "none"
\* the value of scan once the component is unmounted
Unmounted == "unmounted"
LightsNode == [kind |-> "lights", id |-> 0]
GridNode == [kind |-> "grid", id |-> 0]
ModelNode(id) == [kind |-> "model", id |-> id]

\* the state after the init effect: scene, camera, controls, lights and grid exist
ViewerInitial ==
    /\ now = 0
    /\ scan = NoScan
    /\ controls = InitialControls
    /\ camera = LookAtOrigin([position |-> Vec(0, 2 * PosScale, 0),
                              rotation |-> Euler(0, 0, 0, "XYZ")])
    /\ isAnimating = FALSE
    /\ isAnimatingRef = FALSE
    /\ animationCleanupRef = NULL
    /\ runs = << >>
    /\ rafPending = << >>
    /\ frameBatch = << >>
    /\ scene = {LightsNode, GridNode}
    /\ modelRef = NULL
    /\ loadScan = << >>
    /\ loads = {}
    /\ disposeCount = << >>
    /\ isLoading = FALSE
    /\ error = "null"
    /\ lights = CreateLights
    /\ lightingMode = "normal"
    /\ mouse = [isMouseDown |-> FALSE, isRightMouseDown |-> FALSE,
                lastMouseX |-> 0, lastMouseY |-> 0]
    /\ nInputs = 0

Init ==
    /\ ViewerInitial
    /\ ChatInitial
    /\ PageInitial /\ disk = [exists |-> FALSE, entries |-> {}]
    /\ openai = TRUE

Mounted == scan \notin {NoScan, Unmounted}
\* event handlers and loader callbacks are tasks of their own: none runs
\* between two callbacks of one animation frame
Idle == Mounted /\ frameBatch = << >>
\* loader callbacks are tasks too; they do not ask whether the component is
\* still mounted
Quiet == scan # NoScan /\ frameBatch = << >>

(***************************************************************************)
(* The clock and the animation frames.                                     *)
(***************************************************************************)
\* The browser starts a frame, TickMs after the previous one: the callbacks
\* requested so far are its batch.  The clock is read by animate() alone, as
\* the time elapsed since the run's startTime, so only the frames that have
\* a callback to run are modelled.
BeginFrame ==
    /\ frameBatch = << >>
    /\ rafPending # << >>
    /\ now < MaxTicks * TickMs
    /\ now' = now + TickMs
    /\ frameBatch' = rafPending
    /\ rafPending' = << >>
    /\ UNCHANGED <<chatVars, pageVars, scan, controls, camera, isAnimating, isAnimatingRef,
                   animationCleanupRef, runs, sceneVars, lightVars, mouse, nInputs>>

\* cancelAnimationFrame(handle)
CancelAnimationFrame(queue, handle) == SelectSeq(queue, LAMBDA h : h # handle)

\* the frame callback of a run: animate() of playEntranceAnimation, with
\* onAnimationComplete of startEntranceAnimation when it completes
AnimateStep ==
    /\ frameBatch # << >>
    /\ LET i == Head(frameBatch)
           a == Animate(runs[i], controls, now)
       IN /\ frameBatch' = Tail(frameBatch)
          /\ IF ~a.complete
             THEN /\ controls' = a.controls
                  /\ camera' = CameraOf(a.controls)
                  /\ rafPending' = Append(rafPending, i)
                  /\ runs' = [runs EXCEPT ![i].animationFrameId = i,
                                          ![i].progress = a.progress]
                  /\ UNCHANGED <<isAnimating, isAnimatingRef>>
             ELSE /\ controls' = OnAnimationComplete(a.controls)
                  /\ camera' = LookAtOrigin(CameraOf(a.controls))
                  /\ runs' = [runs EXCEPT ![i].progress = a.progress,
                                          ![i].completions = @ + 1]
                  /\ isAnimating' = FALSE
                  /\ isAnimatingRef' = FALSE
                  /\ UNCHANGED rafPending
    /\ UNCHANGED <<chatVars, pageVars, now, scan, animationCleanupRef, sceneVars, lightVars, mouse, nInputs>>

\* startEntranceAnimation(isSmallModel) on controls c: playEntranceAnimation
\* places the camera at the start pose, calls animate() once (elapsed 0) and
\* returns the stop handle, which animationCleanupRef takes
StartEntranceAnimation(c, isSmallModel) ==
    /\ Len(runs) < MaxRuns
    /\ LET id == Len(runs) + 1
           run == NewRun(isSmallModel, now)
           placed == [c EXCEPT !.position = run.startPosition,
                               !.rotation = Euler(0, 0, 0, "YXZ")]
           a == Animate(run, placed, now)
       IN /\ controls' = a.controls
          /\ camera' = CameraOf(a.controls)
          /\ runs' = Append(runs, [run EXCEPT !.animationFrameId = id,
                                              !.progress = a.progress])
          /\ rafPending' = Append(rafPending, id)
    /\ isAnimating' = TRUE
    /\ isAnimatingRef' = TRUE
    /\ animationCleanupRef' = Len(runs) + 1

\* onResetCamera: the Reset View button
ResetView ==
    /\ Idle
    /\ StartEntranceAnimation([controls EXCEPT !.position = Vec(0, 2 * PosScale, 0),
                                               !.rotation = Euler(0, 0, 0, "YXZ")],
                              FALSE)
    /\ UNCHANGED <<chatVars, pageVars, now, scan, frameBatch, sceneVars, lightVars, mouse, nInputs>>

(***************************************************************************)
(* Mouse and wheel handlers (the mouse effect of ModelViewer.tsx).         *)
(***************************************************************************)
\* the (clientX, clientY) of the mouse events, and the deltaY of wheel events
MousePoints == {<<0, 0>>, <<100, 50>>}
WheelDeltas == {0 - 100, 100}
Buttons == {0, 2}

onMouseDown(pt, button) ==
    /\ Idle
    /\ IF isAnimatingRef
       THEN UNCHANGED <<mouse, nInputs>>
       ELSE /\ nInputs < MaxInputs
            /\ nInputs' = nInputs + 1
            /\ mouse' = [isMouseDown |-> TRUE, isRightMouseDown |-> (button = 2),
                         lastMouseX |-> pt[1], lastMouseY |-> pt[2]]
    /\ UNCHANGED <<chatVars, pageVars, now, scan, controls, camera, animVars, frameBatch, sceneVars, lightVars>>

onMouseMove(pt) ==
    /\ Idle
    /\ IF isAnimatingRef \/ ~mouse.isMouseDown
       THEN UNCHANGED <<controls, camera, mouse, nInputs>>
       ELSE LET deltaX == pt[1] - mouse.lastMouseX
                deltaY == pt[2] - mouse.lastMouseY
                moved == IF mouse.isRightMouseDown
                         THEN Pan(controls, deltaX, deltaY)
                         ELSE Rotate(controls, deltaX, deltaY)
            IN /\ nInputs < MaxInputs
               /\ nInputs' = nInputs + 1
               /\ controls' = moved
               /\ camera' = CameraOf(moved)
               /\ mouse' = [mouse EXCEPT !.lastMouseX = pt[1], !.lastMouseY = pt[2]]
    /\ UNCHANGED <<chatVars, pageVars, now, scan, animVars, frameBatch, sceneVars, lightVars>>

onMouseUp ==
    /\ Idle
    /\ nInputs < MaxInputs
    /\ nInputs' = nInputs + 1
    /\ mouse' = [mouse EXCEPT !.isMouseDown = FALSE, !.isRightMouseDown = FALSE]
    /\ UNCHANGED <<chatVars, pageVars, now, scan, controls, camera, animVars, frameBatch, sceneVars, lightVars>>

onWheel(deltaY) ==
    /\ Idle
    /\ IF isAnimatingRef
       THEN UNCHANGED <<controls, camera, nInputs>>
       ELSE LET moved == MoveForward(controls, ZoomDistance(controls, deltaY))
            IN /\ nInputs < MaxInputs
               /\ nInputs' = nInputs + 1
               /\ controls' = moved
               /\ camera' = CameraOf(moved)
    /\ UNCHANGED <<chatVars, pageVars, now, scan, animVars, frameBatch, sceneVars, lightVars, mouse>>

(***************************************************************************)
(* Lighting buttons of UIControls: setLightingMode(mode) and               *)
(* updateLighting(mode).                                                   *)
(***************************************************************************)
LightingModes == {"normal", "bright", "studio"}

\* A click on a lighting button: setLightingMode(mode) and
\* updateLighting(mode); when the mode changed, the lightingMode effect of the
\* next render calls updateLighting once more.  At most max clicks and
\* other input events are taken.
ClickLighting(mode, max) ==
    /\ Idle
    /\ nInputs < max
    /\ nInputs' = nInputs + 1
    /\ lightingMode' = mode
    /\ lights' = LET updated == UpdateLighting(lights, mode)
                 IN IF mode # lightingMode THEN UpdateLighting(updated, mode) ELSE updated
    /\ UNCHANGED <<chatVars, pageVars, now, scan, controls, camera, animVars, frameBatch, sceneVars, mouse>>

SetLighting(mode) == ClickLighting(mode, MaxInputs)

(***************************************************************************)
(* The load effect: it runs when the viewer is mounted with its first scan *)
(* and whenever the scan prop changes.                                     *)
(***************************************************************************)
\* a stop handle that leaves the requested frame callback in place
StopHandleQueueNoCancel(queue, run) == queue

\* the stop handle returned by playEntranceAnimation, called on `run`
StopRun(run) ==
    [run EXCEPT !.animationFrameId = NULL, !.stopped = TRUE]
\* the frame callbacks left pending by the stop handle of `run`
StopHandleQueue(queue, run) ==
    IF run.animationFrameId # NULL
    THEN CancelAnimationFrame(queue, run.animationFrameId)
    ELSE queue

\* the objects the scene sweep removes: every child of the scene that is not
\* the lights group, the grid or modelRef.current (the camera is no child)
SweepRemoves(children, keptModel) ==
    {n \in children : n # LightsNode /\ n # GridNode /\ n # ModelNode(keptModel)}

\* the camera pose the load effect resets to
ResetControls(c) ==
    [SetModelSize(c, 1 * PosScale) EXCEPT !.position = Vec(0, 2 * PosScale, 0),
                                          !.rotation = Euler(0, 0, 0, "YXZ")]

LoadEffect(s) ==
    /\ Len(loadScan) < MaxLoads
    /\ frameBatch = << >>
    /\ LET id == Len(loadScan) + 1
           \* clean up any ongoing animation
           cleanup == animationCleanupRef
           \* clean up the existing model and its resources
           old == modelRef
           oldCalls == IF old # NULL THEN ModelDisposals(ScanById(loadScan[old])) ELSE << >>
           scene1 == IF old # NULL THEN scene \ {ModelNode(old)} ELSE scene
           \* clear all objects from the scene except lights, camera and grid
           swept == SweepRemoves(scene1, NULL)
           c1 == ResetControls(controls)
           ext == FileExtension(s)
       IN /\ runs' = IF cleanup # NULL
                     THEN [runs EXCEPT ![cleanup] = StopRun(@)]
                     ELSE runs
          /\ rafPending' = IF cleanup # NULL
                           THEN StopHandleQueue(rafPending, runs[cleanup])
                           ELSE rafPending
          /\ animationCleanupRef' = NULL
          /\ modelRef' = NULL
          /\ scene' = scene1 \ swept
          /\ disposeCount' =
               [r \in DOMAIN disposeCount |->
                  disposeCount[r]
                  + (IF r.node = old THEN Count(oldCalls, r.name) ELSE 0)
                  + (IF ModelNode(r.node) \in swept
                     THEN Count(SweepDisposals(ScanById(loadScan[r.node])), r.name)
                     ELSE 0)]
          /\ controls' = c1
          /\ camera' = LookAtOrigin([CameraOf(c1) EXCEPT !.position = Vec(0, 2 * PosScale, 0)])
          /\ loads' = IF ext \in {"glb", "gltf"}
                      THEN loads \cup {[id |-> id, stage |-> "gltf", materials |-> FALSE]}
                      ELSE IF ext = "obj"
                      THEN loads \cup {[id |-> id,
                                        stage |-> IF s.hasMtl THEN "mtl" ELSE "obj",
                                        materials |-> FALSE]}
                      ELSE loads
          /\ isLoading' = (ext \in {"glb", "gltf", "obj"})
          /\ error' = IF ext \in {"glb", "gltf", "obj"} THEN "null"
                      ELSE IF ext # "" THEN "Unsupported file format"
                      ELSE "Could not determine file format from path"
          /\ loadScan' = Append(loadScan, s.id)
    /\ scan' = s.id
    /\ UNCHANGED <<chatVars, pageVars, now, isAnimating, isAnimatingRef, frameBatch, lightingMode, mouse, nInputs>>

\* the viewer is mounted with its first scan: load effect, then lighting effect
Mount(s) ==
    /\ scan = NoScan
    /\ LoadEffect(s)
    /\ lights' = UpdateLighting(lights, lightingMode)

\* the scan prop changes to another scan
SelectScan(s) ==
    /\ Mounted
    /\ s.id # scan
    /\ LoadEffect(s)
    /\ UNCHANGED lights

(***************************************************************************)
(* Loader callbacks (ModelLoader.ts) with the callbacks the load effect    *)
(* hands them.                                                             *)
(***************************************************************************)
\* loadGLTFModel / loadOBJModelFromObject with onModelLoaded and
\* onLoadingComplete, for the object of load l; passSize tells whether
\* onModelLoaded hands isSmallModel on to startEntranceAnimation
ModelLoaded(l, passSize) ==
    LET s == ScanById(loadScan[l.id])
        isSmallModel == IsSmallModel(s.size)
    IN /\ scene' = scene \cup {ModelNode(l.id)}
       /\ modelRef' = l.id
       /\ disposeCount' =
            [r \in DOMAIN disposeCount \cup {[node |-> l.id, name |-> n] : n \in Resources(s)} |->
               IF r \in DOMAIN disposeCount THEN disposeCount[r] ELSE 0]
       /\ StartEntranceAnimation(SetModelSize(controls, MaxDimension(s.size)),
                                 IF passSize THEN isSmallModel ELSE FALSE)
       /\ isLoading' = FALSE
       /\ loads' = loads \ {l}
       /\ UNCHANGED <<chatVars, pageVars, now, scan, frameBatch, loadScan, error, lightVars,
                      mouse, nInputs>>

\* onError of a loader, or the error callback of the GLTF loader
LoadFailed(l, message) ==
    /\ error' = message
    /\ isLoading' = FALSE
    /\ loads' = loads \ {l}
    /\ UNCHANGED <<chatVars, pageVars, now, scan, controls, camera, animVars, frameBatch, scene, modelRef,
                   loadScan, disposeCount, lightVars, mouse, nInputs>>

GLTFLoaded(l) == Quiet /\ l.stage = "gltf" /\ ModelLoaded(l, TRUE)
GLTFFailed(l) == Quiet /\ l.stage = "gltf" /\ LoadFailed(l, "Failed to load GLTF model")

\* an MTL loader whose failure fails the whole load
MTLDoneFatal(l, ok) ==
    /\ Quiet
    /\ l.stage = "mtl"
    /\ IF ok
       THEN /\ loads' = (loads \ {l}) \cup {[l EXCEPT !.stage = "obj", !.materials = TRUE]}
            /\ UNCHANGED <<chatVars, pageVars, now, scan, controls, camera, animVars, frameBatch, scene,
                           modelRef, loadScan, disposeCount, isLoading, error, lightVars,
                           mouse, nInputs>>
       ELSE LoadFailed(l, "Failed to load OBJ model")

\* MTLLoader.load: on success the OBJ is loaded with the materials, on
\* failure without them
MTLDone(l, ok) ==
    /\ Quiet
    /\ l.stage = "mtl"
    /\ loads' = (loads \ {l}) \cup {[l EXCEPT !.stage = "obj", !.materials = ok]}
    /\ UNCHANGED <<chatVars, pageVars, now, scan, controls, camera, animVars, frameBatch, scene, modelRef,
                   loadScan, disposeCount, isLoading, error, lightVars,
                   mouse, nInputs>>

OBJLoaded(l) == Quiet /\ l.stage = "obj" /\ ModelLoaded(l, FALSE)
OBJFailed(l) == Quiet /\ l.stage = "obj" /\ LoadFailed(l, "Failed to load OBJ model")

Next ==
    \/ BeginFrame
    \/ AnimateStep
    \/ ResetView
    \/ \E pt \in MousePoints, button \in Buttons : onMouseDown(pt, button)
    \/ \E pt \in MousePoints : onMouseMove(pt)
    \/ onMouseUp
    \/ \E deltaY \in WheelDeltas : onWheel(deltaY)
    \/ \E mode \in LightingModes : SetLighting(mode)
    \/ \E s \in Scans : Mount(s)
    \/ \E s \in Scans : SelectScan(s)
    \/ \E l \in loads : GLTFLoaded(l)
    \/ \E l \in loads : GLTFFailed(l)
    \/ \E l \in loads, ok \in BOOLEAN : MTLDone(l, ok)
    \/ \E l \in loads : OBJLoaded(l)
    \/ \E l \in loads : OBJFailed(l)

Spec == Init /\ [][Next]_vars

\* cleanupAnimation() of useModelViewer on the frame callbacks requested:
\* it cancels the handle in animationRef.current, which never holds one (the
\* ref starts as null and the viewer only ever assigns null to it)
CleanupAnimation(queue) == queue

\* The component is unmounted: the cleanups of the mouse effect (the
\* listeners go) and of the init effect (cleanupAnimation, the renderer).
Unmount ==
    /\ Idle
    /\ scan' = Unmounted
    /\ rafPending' = CleanupAnimation(rafPending)
    /\ UNCHANGED <<chatVars, pageVars, now, controls, camera, isAnimating, isAnimatingRef,
                   animationCleanupRef, runs, frameBatch, sceneVars, lightVars,
                   mouse, nInputs>>

\* The viewer from its mount to after its unmount.
DisposeNext ==
    \/ Next
    \/ Unmount

DisposeSpec == Init /\ [][DisposeNext]_vars

\* The load effect and the loaders alone, for every kind of scan.
LoadNext ==
    \/ \E s \in AllScans : Mount(s)
    \/ \E s \in AllScans : SelectScan(s)
    \/ \E l \in loads : GLTFLoaded(l)
    \/ \E l \in loads : GLTFFailed(l)
    \/ \E l \in loads, ok \in BOOLEAN : MTLDone(l, ok)
    \/ \E l \in loads : OBJLoaded(l)
    \/ \E l \in loads : OBJFailed(l)

LoadSpec == Init /\ [][LoadNext]_vars

\* The viewer with its loads and its lighting buttons.
LightingNext ==
    \/ LoadNext
    \/ \E mode \in LightingModes : ClickLighting(mode, MaxClicks)

LightingSpec == Init /\ [][LightingNext]_vars

(***************************************************************************)
(* The camera controls on their own: a controls object at any pose, and    *)
(* at most MaxInputs calls of its methods.  The methods are called with    *)
(* the mouse deltas, distances and sizes of the sets below.                *)
(***************************************************************************)
Pitches == {0 - Pi, 0 - HalfPi, 1 - HalfPi, 0, 5000, HalfPi, Pi}
ControlPoses ==
    {[position |-> Vec(0, y, 0), rotation |-> Euler(x, yaw, 0, "YXZ"), modelSize |-> m] :
        y \in {1 * PosScale, 2 * PosScale}, x \in Pitches, yaw \in {0, 0 - HalfPi},
        m \in {ModelSizeFloor, 50, 1 * PosScale, 5 * PosScale}}
Deltas == {0 - 400, 0, 3}
Distances == {0 - 30, 30}
Sizes == {0 - 100, 0, 1, 9, 10, 25, 49, 50, 75, 99, 100, 150, 187, 188, 300, 499, 500, 501, 1000}

ControlsInit ==
    /\ controls \in ControlPoses
    /\ camera = CameraOf(controls)
    /\ now = 0
    /\ scan = NoScan
    /\ isAnimating = FALSE
    /\ isAnimatingRef = FALSE
    /\ animationCleanupRef = NULL
    /\ runs = << >>
    /\ rafPending = << >>
    /\ frameBatch = << >>
    /\ scene = {LightsNode, GridNode}
    /\ modelRef = NULL
    /\ loadScan = << >>
    /\ loads = {}
    /\ disposeCount = << >>
    /\ isLoading = FALSE
    /\ error = "null"
    /\ lights = CreateLights
    /\ lightingMode = "normal"
    /\ mouse = [isMouseDown |-> FALSE, isRightMouseDown |-> FALSE,
                lastMouseX |-> 0, lastMouseY |-> 0]
    /\ nInputs = 0
    /\ ChatInitial
    /\ PageInitial /\ disk = [exists |-> FALSE, entries |-> {}]
    /\ openai = TRUE

\* a method that ends with controls.update()
ControlsCall(moved) ==
    /\ nInputs < MaxInputs
    /\ nInputs' = nInputs + 1
    /\ controls' = moved
    /\ camera' = CameraOf(moved)
    /\ UNCHANGED <<chatVars, pageVars, now, scan, animVars, frameBatch, sceneVars, lightVars, mouse>>

rotate(deltaX, deltaY) == ControlsCall(Rotate(controls, deltaX, deltaY))
pan(deltaX, deltaY) == ControlsCall(Pan(controls, deltaX, deltaY))
moveForward(distance) == ControlsCall(MoveForward(controls, distance))
\* setModelSize does not call update()
setModelSize(size) ==
    /\ nInputs < MaxInputs
    /\ nInputs' = nInputs + 1
    /\ controls' = SetModelSize(controls, size)
    /\ UNCHANGED <<chatVars, pageVars, now, scan, camera, animVars, frameBatch, sceneVars, lightVars, mouse>>

ControlsNext ==
    \/ \E deltaX \in Deltas, deltaY \in Deltas : rotate(deltaX, deltaY)
    \/ \E deltaX \in Deltas, deltaY \in Deltas : pan(deltaX, deltaY)
    \/ \E distance \in Distances : moveForward(distance)
    \/ \E size \in Sizes : setModelSize(size)

ControlsSpec == ControlsInit /\ [][ControlsNext]_vars

(***************************************************************************)
(* The chat: ChatInterface.tsx (handleSubmit), middleware.ts and           *)
(* api/chat/route.ts (POST).  Sizes are in MB (2^20 bytes or characters).  *)
(* A request is [origin, contentLength, bytes, json, message, scanId,      *)
(* screenshot]: json tells whether the body text parses and to what, and   *)
(* the screenshot is [type, dataImage, base64Length], where dataImage is   *)
(* startsWith('data:image/') and base64Length the length of what follows   *)
(* the first comma.                                                        *)
(***************************************************************************)
NoHeader == 0 - 1
Screenshot(type, dataImage, base64Length) ==
    [type |-> type, dataImage |-> dataImage, base64Length |-> base64Length]
Request(origin, contentLength, bytes, json, message, scanId, screenshot) ==
    [origin |-> origin, contentLength |-> contentLength, bytes |-> bytes, json |-> json,
     message |-> message, scanId |-> scanId, screenshot |-> screenshot]

\* requests a client of /api/chat can post
ClientRequests ==
    { \* a question with a screenshot of 1 MB
      Request("client", 2, 2, "object", "What is this?", "chair", Screenshot("string", TRUE, 1)),
      \* a body that is no JSON
      Request("client", 1, 1, "invalid", "", "", Screenshot("undefined", FALSE, 0)),
      \* the JSON text null
      Request("client", 1, 1, "null", "", "", Screenshot("undefined", FALSE, 0)),
      \* 51 MB announced by content-length
      Request("client", 51, 51, "object", "What is this?", "chair", Screenshot("string", TRUE, 1)),
      \* 51 MB sent without content-length
      Request("client", NoHeader, 51, "object", "What is this?", "chair", Screenshot("string", TRUE, 1)),
      \* no message, no scanId, no screenshot
      Request("client", 2, 2, "object", "", "chair", Screenshot("string", TRUE, 1)),
      Request("client", 2, 2, "object", "What is this?", "", Screenshot("string", TRUE, 1)),
      Request("client", 1, 1, "object", "What is this?", "chair", Screenshot("undefined", FALSE, 0)),
      \* a screenshot that is an http URL, one without data, one that is a number
      Request("client", 1, 1, "object", "What is this?", "chair", Screenshot("string", FALSE, 0)),
      Request("client", 1, 1, "object", "What is this?", "chair", Screenshot("string", TRUE, 0)),
      Request("client", 1, 1, "object", "What is this?", "chair", Screenshot("number", FALSE, 0)),
      \* screenshots of 26 and of 27 MB of base64 (19.5 and 20.25 MB decoded)
      Request("client", 27, 27, "object", "What is this?", "chair", Screenshot("string", TRUE, 26)),
      Request("client", 28, 28, "object", "What is this?", "chair", Screenshot("string", TRUE, 27)) }

\* what openai.chat.completions.create does: it resolves with a completion
\* (with or without content) or throws
ChatError(code, status, timeout, tooLarge) ==
    [code |-> code, status |-> status, timeout |-> timeout, tooLarge |-> tooLarge]
TypeError == ChatError("", 0, FALSE, FALSE)
ModelOutcomes ==
    { [ok |-> TRUE, content |-> "analysis"],
      [ok |-> TRUE, content |-> ""],
      [ok |-> FALSE, error |-> ChatError("insufficient_quota", 429, FALSE, FALSE)],
      [ok |-> FALSE, error |-> ChatError("ECONNRESET", 0, FALSE, FALSE)],
      [ok |-> FALSE, error |-> ChatError("", 0, TRUE, FALSE)],
      [ok |-> FALSE, error |-> ChatError("", 413, FALSE, FALSE)],
      [ok |-> FALSE, error |-> ChatError("", 0, FALSE, TRUE)],
      [ok |-> FALSE, error |-> ChatError("", 500, FALSE, FALSE)] }

Response(status, message, response, called) ==
    [status |-> status, error |-> message, response |-> response, called |-> called]

\* route.ts, the catch block of POST
ErrorResponse(e, called) ==
    IF e.code = "insufficient_quota"
    THEN Response(429, "OpenAI API quota exceeded", "", called)
    ELSE IF e.code = "ECONNRESET" \/ e.timeout
    THEN Response(408, "Request timed out", "", called)
    ELSE IF e.status = 413 \/ e.tooLarge
    THEN Response(413, "Image too large", "", called)
    ELSE Response(500, "Failed to process chat request", "", called)

\* middleware.ts and route.ts, POST: the response to req, and whether the
\* model was called; outcome is what the model call does if it is made
POST(req, configured, outcome) ==
    IF req.contentLength # NoHeader /\ req.contentLength > 50
    THEN Response(413, "Payload too large", "", FALSE)
    ELSE IF ~configured
    THEN Response(500, "OpenAI API key not configured", "", FALSE)
    ELSE IF req.bytes > 50
    THEN Response(413, "Payload too large", "", FALSE)
    ELSE IF req.json = "invalid"
    THEN Response(400, "Invalid JSON payload", "", FALSE)
    ELSE IF req.json = "null"
    THEN ErrorResponse(TypeError, FALSE)
    ELSE IF req.message = "" \/ req.scanId = "" \/ req.screenshot.type = "undefined"
    THEN Response(400, "Missing required fields: message, scanId, or screenshot", "", FALSE)
    ELSE IF req.screenshot.type # "string"
    THEN ErrorResponse(TypeError, FALSE)
    ELSE IF ~req.screenshot.dataImage
    THEN Response(400, "Invalid screenshot format. Expected base64 data URL.", "", FALSE)
    ELSE IF req.screenshot.base64Length = 0
    THEN Response(400, "Invalid screenshot data", "", FALSE)
    ELSE IF req.screenshot.base64Length * 75 > 20 * 100
    THEN Response(413, "Screenshot too large", "", FALSE)
    ELSE IF outcome.ok
    THEN Response(200, "", IF outcome.content # "" THEN outcome.content
                           ELSE "Sorry, I could not analyze the room view.", TRUE)
    ELSE ErrorResponse(outcome.error, TRUE)

Apology == "Sorry, I encountered an error while analyzing the room. Please try again."
Message(role, content) == [role |-> role, content |-> content]

\* takeScreenshot(): null, or the PNG data URL of the canvas (its base64 length)
ScreenshotLengths == {NULL, 1, 27}
InputValues == {"", "What is this?"}

\* ChatInterface.handleSubmit after its guard and up to the fetch; without a
\* screenshot it ends in its catch and finally blocks
SubmitQuestion(inputValue, shot) ==
    /\ Mounted
    /\ Len(responses) + Len(pending) < MaxChats /\ Len(messages) < 2 * MaxChats
    /\ IF shot = NULL
       THEN /\ messages' = messages \o <<Message("user", inputValue), Message("assistant", Apology)>>
            /\ chatIsLoading' = FALSE
            /\ UNCHANGED pending
       ELSE /\ messages' = Append(messages, Message("user", inputValue))
            /\ chatIsLoading' = TRUE
            /\ pending' = Append(pending,
                                 Request("ui", shot + 1, shot + 1, "object", inputValue, scan,
                                         Screenshot("string", TRUE, shot)))
    /\ UNCHANGED <<viewerVars, pageVars, responses, modelCalls, openai>>

\* a submit handler that does not look at isLoading
handleSubmitWhileLoading(inputValue, shot) ==
    inputValue # "" /\ SubmitQuestion(inputValue, shot)

\* handleSubmit: if (!inputValue.trim() || isLoading) return
handleSubmit(inputValue, shot) ==
    inputValue # "" /\ ~chatIsLoading /\ SubmitQuestion(inputValue, shot)

\* any other client posts a request
ClientPost(req) ==
    /\ Len(responses) + Len(pending) < MaxChats
    /\ pending' = Append(pending, req)
    /\ UNCHANGED <<viewerVars, pageVars, messages, chatIsLoading, responses, modelCalls, openai>>

\* the server answers the k-th request in flight; for a request of
\* handleSubmit, handleSubmit goes on with the response.  The response is
\* recorded with its request.
Respond(k, outcome) ==
    /\ k \in 1..Len(pending)
    /\ LET req == pending[k]
           res == POST(req, openai, outcome)
       IN /\ responses' = Append(responses,
                                 [request |-> req, status |-> res.status, error |-> res.error,
                                  response |-> res.response, called |-> res.called])
          /\ modelCalls' = IF res.called THEN modelCalls + 1 ELSE modelCalls
          /\ IF req.origin = "ui"
             THEN /\ messages' = Append(messages,
                                        Message("assistant",
                                                IF res.status = 200 THEN res.response
                                                ELSE Apology))
                  /\ chatIsLoading' = FALSE
             ELSE UNCHANGED <<messages, chatIsLoading>>
    /\ pending' = [i \in 1..(Len(pending) - 1) |-> IF i < k THEN pending[i] ELSE pending[i + 1]]
    /\ UNCHANGED <<viewerVars, pageVars, openai>>

ChatInit ==
    /\ ViewerInitial
    /\ ChatInitial
    /\ PageInitial /\ disk = [exists |-> FALSE, entries |-> {}]
    /\ openai \in BOOLEAN

ChatNext ==
    \/ \E s \in Scans : Mount(s)
    \/ \E inputValue \in InputValues, shot \in ScreenshotLengths : handleSubmit(inputValue, shot)
    \/ \E req \in ClientRequests : ClientPost(req)
    \/ \E k \in 1..Len(pending), outcome \in ModelOutcomes : Respond(k, outcome)

ChatSpec == ChatInit /\ [][ChatNext]_vars

(***************************************************************************)
(* app/api/scans/route.ts and app/page.tsx: the scan list.  A file name is *)
(* the sequence of its dot-separated pieces ("room.obj" is                 *)
(* <<"room", "obj">>), a directory listing a sequence of file names, and a *)
(* file size a number of MB.  The scans directory, when it exists, can be  *)
(* read.  A scan is [id, name, folder, modelPath, hasMtl, fileFormat];     *)
(* texturePath and roomImagePath are not carried.                          *)
(***************************************************************************)
\* the entries of public/scans studied: each name is absent, a plain file,
\* or a directory with one of five listings
Disks ==
    LET names == {"Zoo", "attic", "living-room"}
        listings ==
            { << <<"room", "jpg">>, <<"room", "mtl">>, <<"room", "obj">>, <<"textures">> >>,
              << <<"room", "mtl">>, <<"room", "obj">>, <<"textures">> >>,
              << <<"museum", "glb">>, <<"textures">> >>,
              << <<"model", "gltf">>, <<"textures">> >>,
              << <<"room", "jpg">> >> }
        kinds == {[isDirectory |-> FALSE, files |-> << >>]}
                     \cup {[isDirectory |-> TRUE, files |-> l] : l \in listings}
        entry(n, k) == [name |-> n, isDirectory |-> k.isDirectory, files |-> k.files]
    IN {[exists |-> FALSE, entries |-> {}]} \cup
       {[exists |-> TRUE, entries |-> {entry(n, f[n]) : n \in present}] :
            present \in SUBSET names, f \in [names -> kinds]}

\* folder.name.replace(/-/g, ' ').replace(/\b\w/g, l => l.toUpperCase())
DisplayName ==
    [n \in {"Zoo", "attic", "living-room"} |->
        CASE n = "Zoo" -> "Zoo" [] n = "attic" -> "Attic" [] n = "living-room" -> "Living Room"]

\* a.name.localeCompare(b.name) < 0, or = 0 with a not after b
LocaleBefore(a, b) ==
    LET order == <<"Attic", "Living Room", "Zoo">>
        rank(name) == CHOOSE i \in 1..Len(order) : order[i] = name
    IN rank(a.name) <= rank(b.name)

\* scans.sort((a, b) => a.name.localeCompare(b.name)) of the scans pushed
RECURSIVE SortScans(_)
SortScans(pushed) ==
    IF pushed = {} THEN << >>
    ELSE LET first == CHOOSE a \in pushed : \A b \in pushed : LocaleBefore(a, b)
         IN <<first>> \o SortScans(pushed \ {first})

\* GET of /api/scans on the disk d
GET(d) ==
    IF ~d.exists THEN [status |-> 200, scans |-> << >>]
    ELSE LET endsWith(file, ext) == Len(file) > 1 /\ file[Len(file)] = ext
             some(files, ext) == \E i \in 1..Len(files) : endsWith(files[i], ext)
             find(files, ext) ==
                 files[CHOOSE i \in 1..Len(files) :
                           /\ endsWith(files[i], ext)
                           /\ \A j \in 1..(i - 1) : ~endsWith(files[j], ext)]
             hasModel(e) == some(e.files, "obj")
             hasRoomImage(e) == \E i \in 1..Len(e.files) : e.files[i] = <<"room", "jpg">>
             pushed ==
                 {[id |-> e.name, name |-> DisplayName[e.name], folder |-> e.name,
                   modelPath |-> <<"scans", e.name, find(e.files, "obj")>>,
                   hasMtl |-> some(e.files, "mtl"), fileFormat |-> "undefined"] :
                      e \in {f \in d.entries : f.isDirectory /\ hasModel(f) /\ hasRoomImage(f)}}
         IN [status |-> 200, scans |-> SortScans(pushed)]

\* the fetchScans effect runs after a render in which selectedScan changed
fetchScans(selected) ==
    /\ fetches' = Append(fetches, [selectedScan |-> selected])
    /\ nFetches' = nFetches + 1

\* the files offered to handleFileUpload
Files ==
    {[name |-> n, size |-> z] :
        n \in {<<"room", "obj">>, <<"Museum", "GLB">>, <<"model", "gltf">>, <<"gltf">>,
               <<"notes", "txt">>, <<"room", "obj", "zip">>},
        z \in {1, 100, 101}}

\* page.tsx handleFileUpload, and the effect that follows the selection
handleFileUpload(file) ==
    LET toLowerCase(x) == CASE x = "GLB" -> "glb" [] OTHER -> x
        fileExtension == toLowerCase(file.name[Len(file.name)])
        fileFormat == CASE fileExtension = "glb" -> "glb"
                        [] fileExtension = "gltf" -> "gltf"
                        [] OTHER -> "obj"
        id == <<"uploaded-1", "uploaded-2", "uploaded-3">>[nUploads + 1]
        newScan == [id |-> id, name |-> <<"Uploaded: ", file.name>>, folder |-> "uploaded",
                    modelPath |-> <<"blob:", id>>, hasMtl |-> FALSE, fileFormat |-> fileFormat]
    IN /\ nUploads < MaxUploads /\ nFetches < MaxFetches
       /\ IF fileExtension \notin {"obj", "glb", "gltf"}
          THEN /\ uploadError' = "Unsupported file type"
               /\ UNCHANGED <<scans, selectedScan, fetches, nFetches, nUploads>>
          ELSE IF file.size > 100
          THEN /\ uploadError' = "File too large"
               /\ UNCHANGED <<scans, selectedScan, fetches, nFetches, nUploads>>
          ELSE /\ uploadError' = "null"
               /\ scans' = Append(scans, newScan)
               /\ selectedScan' = newScan
               /\ nUploads' = nUploads + 1
               /\ fetchScans(newScan)
       /\ UNCHANGED <<viewerVars, chatVars, disk>>

\* ScanSelector: onChange of the select with the value of one of its options
onChange(value) ==
    /\ nFetches < MaxFetches
    /\ value # selectedScan.id
    /\ \E i \in 1..Len(scans) :
          /\ scans[i].id = value
          /\ \A j \in 1..(i - 1) : scans[j].id # value
          /\ selectedScan' = scans[i]
          /\ fetchScans(scans[i])
    /\ UNCHANGED <<viewerVars, chatVars, disk, scans, uploadError, nUploads>>

\* the k-th fetchScans in flight gets its response
FetchScansDone(k) ==
    /\ k \in 1..Len(fetches)
    /\ LET data == GET(disk)
           rest == [i \in 1..(Len(fetches) - 1) |->
                        IF i < k THEN fetches[i] ELSE fetches[i + 1]]
       IN /\ scans' = data.scans
          /\ IF Len(data.scans) > 0 /\ fetches[k].selectedScan.id = ""
             THEN /\ nFetches < MaxFetches
                  /\ selectedScan' = data.scans[1]
                  /\ fetches' = Append(rest, [selectedScan |-> data.scans[1]])
                  /\ nFetches' = nFetches + 1
             ELSE /\ fetches' = rest
                  /\ UNCHANGED <<selectedScan, nFetches>>
    /\ UNCHANGED <<viewerVars, chatVars, disk, uploadError, nUploads>>

\* the k-th fetchScans in flight fails and ends in its catch block
FetchScansFailed(k) ==
    /\ k \in 1..Len(fetches)
    /\ fetches' = [i \in 1..(Len(fetches) - 1) |-> IF i < k THEN fetches[i] ELSE fetches[i + 1]]
    /\ UNCHANGED <<viewerVars, chatVars, disk, scans, selectedScan, uploadError,
                   nFetches, nUploads>>

PageInit ==
    /\ ViewerInitial
    /\ ChatInitial
    /\ openai = TRUE
    /\ PageInitial
    /\ disk \in Disks

PageNext ==
    \/ \E file \in Files : handleFileUpload(file)
    \/ \E i \in 1..Len(scans) : onChange(scans[i].id)
    \/ \E k \in 1..Len(fetches) : FetchScansDone(k)
    \/ \E k \in 1..Len(fetches) : FetchScansFailed(k)

PageSpec == PageInit /\ [][PageNext]_vars

(***************************************************************************)
(* Properties of the entrance animation.                                   *)
(***************************************************************************)
\* run i has a frame callback requested or waiting in the current frame
Scheduled(i) ==
    \/ \E k \in 1..Len(rafPending) : rafPending[k] = i
    \/ \E k \in 1..Len(frameBatch) : frameBatch[k] = i
\* the runs in progress
ActiveRuns == {i \in 1..Len(runs) : Scheduled(i)}

\* a mouse or wheel handler moved the stored camera pose in this step
InputMovesPose == nInputs' = nInputs + 1 /\ controls' # controls
\* the frame callback of run i ran in this step
StepOf(i) == frameBatch # << >> /\ Head(frameBatch) = i /\ frameBatch' = Tail(frameBatch)
\* startEntranceAnimation ran in this step
StartsRun == Len(runs') = Len(runs) + 1
\* the load effect ran in this step
LoadRequested == Len(loadScan') = Len(loadScan) + 1

\* C1: no mouse or wheel handler moves the camera pose while isAnimatingRef
\* is true, so user input never changes the pose while an entrance
\* animation is in progress.
C1_NoInputWhileAnimating ==
    [][InputMovesPose => (~isAnimatingRef /\ ActiveRuns = {})]_vars

\* C2: at most one entrance-animation run is active at any time: every
\* start first cancels the run in progress, so that after a start the new
\* run is the only one with a scheduled step.
C2_SingleActiveRun ==
    [][/\ Cardinality(ActiveRuns') <= 1
       /\ StartsRun => ActiveRuns' = {Len(runs')}]_vars

\* C3: starting a second animation cancels the first: no step of an earlier
\* run executes once a later run has started, and when the latest run
\* completes the stored position is exactly that run's target.
C3_SecondRunSupersedesFirst ==
    [][\A i \in 1..Len(runs) :
         StepOf(i) =>
           /\ i = Len(runs)
           /\ runs'[i].completions > runs[i].completions
                => controls'.position = runs[i].targetPosition]_vars

\* C4: once the stop handle of a run has been called, the run executes no
\* further step (its progress stays), has no step scheduled and its
\* completion callback never fires; a stop handle called on a run that has
\* completed leaves the frame callbacks as they are.
C4_StopHandleStops ==
    [][\A i \in 1..Len(runs) :
         /\ runs[i].stopped =>
              /\ ~StepOf(i)
              /\ runs'[i].progress = runs[i].progress
              /\ runs'[i].completions = runs[i].completions
         /\ runs'[i].stopped => ~Scheduled(i)'
         /\ runs'[i].completions > 0 =>
              /\ StopHandleQueue(rafPending', runs'[i]) = rafPending'
              /\ StopHandleQueue(frameBatch', runs'[i]) = frameBatch']_vars

\* a run was stopped half-way, stays there, and a later run has run to its
\* completion since
C4_Witness ==
    \E i, j \in 1..Len(runs) :
        /\ i < j
        /\ runs[i].stopped /\ runs[i].completions = 0
        /\ 0 < runs[i].progress /\ runs[i].progress < Unit
        /\ runs[j].completions = 1

\* C5: when no run is active, isAnimating and isAnimatingRef are false:
\* after a scan switch cancelled the run, input is accepted again, also when
\* the load that follows fails or has an unsupported format.
C5_InputAcceptedWhenNoRun ==
    ActiveRuns = {} => (~isAnimatingRef /\ ~isAnimating)

\* C6: for every run that is not cancelled, progress never decreases and
\* never exceeds 1; it is exactly 1 when the run completes, which is at or
\* after animationDuration ms from its start and on the first step taken
\* then; the completion callback fires exactly once and no step of the run
\* is scheduled afterwards.
C6_ProgressAndCompletion ==
    [][\A i \in 1..Len(runs) :
         /\ runs[i].progress <= runs'[i].progress
         /\ runs'[i].progress <= Unit
         /\ runs'[i].completions <= 1
         /\ (runs'[i].completions = 1) = (runs'[i].progress = Unit)
         /\ runs'[i].completions = 1 =>
              /\ now' - runs'[i].startTime >= animationDuration
              /\ ~Scheduled(i)'
         /\ (StepOf(i) /\ now - runs[i].startTime >= animationDuration) =>
              runs'[i].completions = runs[i].completions + 1]_vars

\* a run has completed: its callback fired once, after steps at progress
\* strictly between 0 and 1
C6_Witness ==
    \E i \in 1..Len(runs) :
        /\ runs[i].completions = 1 /\ runs[i].progress = Unit
        /\ now - runs[i].startTime > animationDuration
        /\ ~runs[i].stopped
        /\ ~isAnimating

\* the camera at pose c faces the origin: its forward vector is the unit
\* vector from its position toward the origin, up to the nudge of lookAt
FacesOrigin(c) ==
    LET f == Forward(c.rotation)
        d == VNormalize(VSub(Vec(0, 0, 0), c.position))
    IN /\ f.x - d.x \in (0 - LookAtNudge)..LookAtNudge
       /\ f.y - d.y \in (0 - LookAtNudge)..LookAtNudge
       /\ f.z - d.z \in (0 - LookAtNudge)..LookAtNudge

\* C7: when a run completes, the stored position is exactly the run's target
\* position, and the stored orientation (and the render camera's) faces from
\* the target toward the origin, for the small and for the large target.
C7_FinalPose ==
    [][\A i \in 1..Len(runs) :
         (StepOf(i) /\ runs'[i].completions > runs[i].completions) =>
           /\ controls'.position = runs[i].targetPosition
           /\ runs[i].targetPosition \in {TargetPosition(TRUE), TargetPosition(FALSE)}
           /\ FacesOrigin(controls')
           /\ camera' = CameraOf(controls')]_vars

\* a run toward the small target and a run toward the large target have
\* both completed, the later one leaving the pose at its target
C7_Witness ==
    /\ \E i \in 1..Len(runs) :
          runs[i].completions = 1 /\ runs[i].targetPosition = TargetPosition(TRUE)
    /\ \E j \in 1..Len(runs) :
          /\ runs[j].completions = 1 /\ runs[j].targetPosition = TargetPosition(FALSE)
          /\ controls.position = TargetPosition(FALSE)
    /\ FacesOrigin(controls)
    /\ ActiveRuns = {}

(***************************************************************************)
(* Properties of the load effect and the loaders.                          *)
(***************************************************************************)
\* dispose() calls made in this step on resource r
DisposedNow(r) == disposeCount'[r] - disposeCount[r]

\* C8: the cleanup at the start of a load leaves only the lights and the
\* grid in the scene, and has disposed every geometry, material and texture
\* of the model that was in the scene, each texture exactly once.
C8_CleanupDisposesModel ==
    [][LoadRequested =>
         /\ scene' = {LightsNode, GridNode}
         /\ \A r \in DOMAIN disposeCount :
              ModelNode(r.node) \in scene =>
                /\ DisposedNow(r) >= 1
                /\ r.name \in Textures(ScanById(loadScan[r.node])) => DisposedNow(r) = 1]_vars

\* the bounds validation: every extent is positive
ValidBounds(size) == size.x > 0 /\ size.y > 0 /\ size.z > 0

\* C9: an object whose bounding box has an extent that is not positive is
\* rejected, by the OBJ and by the GLTF path: when its load ends the scene is
\* unchanged, modelRef is unchanged and onModelLoaded has started no
\* animation.
C9_InvalidBoundsRejected ==
    [][\A l \in loads :
         (l \notin loads' /\ ~ValidBounds(ScanById(loadScan[l.id]).size)) =>
           /\ scene' = scene
           /\ modelRef' = modelRef
           /\ ~StartsRun]_vars

\* C10: a load that ends in an error leaves the last-good state: the model
\* shown before is still in the scene, and the camera pose, the reference
\* size and the light intensities are those of before the load was
\* requested.  Stated for the load that ends in its error at once (the
\* format is unsupported), while a model with valid bounds is shown.
C10_ErrorKeepsLastGood ==
    [][(/\ LoadRequested
        /\ modelRef # NULL
        /\ ValidBounds(ScanById(loadScan[modelRef]).size)
        /\ error' # "null") =>
         /\ ModelNode(modelRef) \in scene'
         /\ modelRef' = modelRef
         /\ controls' = controls
         /\ lights' = lights]_vars

LoadEnds(l) == l \in loads /\ \A k \in loads' : k.id # l.id

\* C12: for an OBJ scan with hasMtl, a failure of the MTL load is not fatal:
\* the load goes on to exactly one OBJ load without materials and no error
\* is shown; a load ends only with its OBJ load, and then with exactly one
\* of onModelLoaded (its object is in the scene and is modelRef) and
\* onError (the error is shown, the scene stays).
C12_MtlFailureNotFatal ==
    [][\A l \in loads :
         /\ (l.stage = "mtl" /\ l \notin loads') =>
              /\ \E ok \in BOOLEAN :
                    {k \in loads' : k.id = l.id} = {[l EXCEPT !.stage = "obj", !.materials = ok]}
              /\ error' = error /\ isLoading' = isLoading
              /\ scene' = scene /\ modelRef' = modelRef
         /\ LoadEnds(l) =>
              /\ l.stage # "mtl"
              /\ (modelRef' = l.id /\ ModelNode(l.id) \in scene' /\ error' = error)
                   # (error' # "null" /\ scene' = scene /\ modelRef' = modelRef)]_vars

\* the MTL load of a scan with hasMtl has failed and its OBJ is being loaded
\* without materials, with no error shown
C12_Witness ==
    \E l \in loads :
        /\ ScanById(loadScan[l.id]).hasMtl
        /\ l.stage = "obj" /\ ~l.materials
        /\ error = "null" /\ isLoading

\* C13: the entrance animation started for a loaded model, OBJ or GLTF,
\* uses the start and target positions of the model's size class: those of
\* a small model when the largest dimension of its bounding box is below
\* 3.0, else those of a large model.  Stated for models with valid bounds.
C13_SizeClassSelectsPoses ==
    [][\A l \in loads :
         (/\ LoadEnds(l) /\ modelRef' = l.id /\ StartsRun
          /\ ValidBounds(ScanById(loadScan[l.id]).size)) =>
           LET small == MaxDimension(ScanById(loadScan[l.id]).size) < 3 * PosScale
               run == runs'[Len(runs')]
           IN /\ run.startPosition = StartPosition(small)
              /\ run.targetPosition = TargetPosition(small)]_vars

(***************************************************************************)
(* The scale of a loaded object, in 1/100.                                 *)
(***************************************************************************)
\* ModelLoader.ts (loadGLTFModel, loadOBJModelFromObject): the object is
\* centred and added to the scene; its scale stays the loader's 1
ObjectScale(maxDim) == 1 * PosScale

\* The single-file viewer (components/ModelViewer.tsx), loadOBJModelFromObject:
\* scale = Math.max(1.0, 5 / maxDim)
FitScale(maxDim) == Max(1 * PosScale, (5 * PosScale * PosScale) \div maxDim)
\* targetSize = originalMaxSize < 1.0 ? 5.0 : 3.0
RescaleTarget(originalMaxSize) ==
    IF originalMaxSize < 1 * PosScale THEN 5 * PosScale ELSE 3 * PosScale
\* newScale = targetSize / originalMaxSize
NewScale(originalMaxSize) == (RescaleTarget(originalMaxSize) * PosScale) \div originalMaxSize
\* object.scale after setScalar(scale) and, for originalMaxSize < 3.0,
\* multiplyScalar(newScale)
RescaledObjectScale(maxDim) ==
    IF maxDim < 3 * PosScale
    THEN (FitScale(maxDim) * NewScale(maxDim)) \div PosScale
    ELSE FitScale(maxDim)

\* C14: the largest dimension of a loaded model after the visibility
\* rescale depends on its original largest dimension m only: it is 5.0 when
\* m < 1.0, 3.0 when 1.0 <= m < 3.0, and m itself when m >= 3.0; stated of
\* the viewer's loaders and of the single-file viewer's loader, for the
\* model shown (with valid bounds).
C14_VisibilityRescale ==
    (modelRef # NULL /\ ValidBounds(ScanById(loadScan[modelRef]).size)) =>
        LET m == MaxDimension(ScanById(loadScan[modelRef]).size)
            final == IF m < 1 * PosScale THEN 5 * PosScale
                     ELSE IF m < 3 * PosScale THEN 3 * PosScale
                     ELSE m
        IN /\ (m * ObjectScale(m)) \div PosScale = final
           /\ (m * RescaledObjectScale(m)) \div PosScale = final

PitchInRange(c) ==
    /\ c.rotation.x >= 0 - HalfPi + PitchMargin
    /\ c.rotation.x <= HalfPi - PitchMargin

\* C16: whatever the pose before it and whatever the deltas, a call of
\* rotate(deltaX, deltaY) leaves the pitch (rotation.x) within
\* [-pi/2 + 0.01, pi/2 - 0.01]; hence so does any sequence of such calls.
C16_PitchClamped ==
    [][(\E deltaX \in Deltas, deltaY \in Deltas :
            controls' = Rotate(controls, deltaX, deltaY))
         => PitchInRange(controls')]_vars

\* rotate has been called on a pose whose pitch was beyond the upper limit
\* or was pushed beyond it, and the pitch stands at the limit
C16_Witness ==
    /\ nInputs > 0
    /\ controls.rotation.x = HalfPi - PitchMargin

\* C17: the pan speed and the rotation speed never decrease when the model
\* size grows, the boundaries 0.5 and 1.0 included, and they stay within
\* [0.0005, 0.015] and [0.002, 0.015]: stated of the stored modelSize
\* against every size of Sizes.
C17_SpeedsMonotoneAndBounded ==
    LET s == controls.modelSize
    IN /\ PanSpeed(s) >= MinPanSpeed /\ PanSpeed(s) <= MaxPanSpeed
       /\ RotationSpeed(s) >= MinRotationSpeed /\ RotationSpeed(s) <= MaxRotationSpeed
       /\ \A t \in Sizes :
            /\ s <= t => PanSpeed(s) <= PanSpeed(t) /\ RotationSpeed(s) <= RotationSpeed(t)
            /\ t <= s => PanSpeed(t) <= PanSpeed(s) /\ RotationSpeed(t) <= RotationSpeed(s)

\* pan has moved the camera of a model of size 0.5, where the speed leaves
\* the lower bound
C17_Witness ==
    /\ nInputs = 1
    /\ controls.modelSize = 50
    /\ controls.position.y \notin {1 * PosScale, 2 * PosScale}
    /\ PanSpeed(controls.modelSize) > MinPanSpeed

\* C18: updateLighting is idempotent and independent of history: in a
\* mounted viewer the six intensities are those the current preset gives to
\* freshly created lights, whatever presets were chosen before; applying the
\* preset again changes nothing; and under Normal the ambient light has
\* intensity 0.8 (so after Normal, Bright, Studio, Normal).
C18_LightingByPreset ==
    Mounted =>
        /\ lights = UpdateLighting(CreateLights, lightingMode)
        /\ UpdateLighting(lights, lightingMode) = lights
        /\ lightingMode = "normal" => lights[1] = 8
        /\ lightingMode = "bright" => lights[1] = 12
        /\ lightingMode = "studio" => lights[1] = 6

\* back at Normal after three or more clicks on the lighting buttons, the
\* ambient light at 0.8
C18_Witness ==
    /\ Mounted
    /\ nInputs >= 3
    /\ lightingMode = "normal"
    /\ lights[1] = 8

\* a request in flight is answered in this step
Answered == Len(responses') = Len(responses) + 1
LastResponse == responses[Len(responses)]

\* C19: when the analysis fails, the route's response names the kind of
\* failure (not configured, payload too large, rate limited, timeout,
\* unknown) and the chat shows that message as the assistant's reply; the
\* viewer's state is not touched.
C19_FailureMessageShown ==
    [][(Answered /\ LastResponse'.request.origin = "ui" /\ LastResponse'.status # 200) =>
          /\ LastResponse'.error # ""
          /\ messages'[Len(messages')] = Message("assistant", LastResponse'.error)
          /\ viewerVars' = viewerVars]_vars

\* the statuses with which a request is to be rejected: 500 without API
\* key, 413 for a body over 50 MB or a decoded screenshot over 20 MB, 400 for
\* invalid JSON, a missing field or a screenshot that is no base64
\* data:image/ URL
RejectionStatuses(req, configured) ==
    (IF ~configured THEN {500} ELSE {})
    \cup (IF \/ req.bytes > 50
             \/ req.screenshot.type = "string" /\ req.screenshot.base64Length * 75 > 20 * 100
          THEN {413} ELSE {})
    \cup (IF \/ req.json # "object"
             \/ req.message = "" \/ req.scanId = "" \/ req.screenshot.type = "undefined"
             \/ ~(/\ req.screenshot.type = "string" /\ req.screenshot.dataImage
                  /\ req.screenshot.base64Length > 0)
          THEN {400} ELSE {})

\* C20: POST /api/chat calls the vision model only for a request that
\* passes every validation; any other request is rejected without a model
\* call, with one of the statuses its defects call for.
C20_ValidatedBeforeModelCall ==
    [][Answered =>
         LET rejections == RejectionStatuses(LastResponse'.request, openai)
             res == LastResponse'
         IN /\ modelCalls' # modelCalls => rejections = {}
            /\ rejections # {} => /\ modelCalls' = modelCalls
                                  /\ res.status \in rejections]_vars

\* C22: the pitch of the stored camera pose lies within
\* [-pi/2 + 0.01, pi/2 - 0.01] in every reachable state of the viewer: in
\* the initial pose, after the camera reset of a scan switch, during every
\* step of the entrance animation and after its completion callback.
C22_PitchAlwaysInRange == PitchInRange(controls)

\* C29: Reset View gives the model shown the size class its load gave it:
\* the run a reset starts has the small pair of start and target positions
\* when the model's largest dimension is below 3.0 and the large pair
\* otherwise, so the camera comes to rest where the load's animation left it.
C29_ResetKeepsSizeClass ==
    [][(/\ StartsRun /\ loads' = loads
        /\ modelRef # NULL /\ ValidBounds(ScanById(loadScan[modelRef]).size)) =>
          LET small == IsSmallModel(ScanById(loadScan[modelRef]).size)
              run == runs'[Len(runs')]
          IN /\ run.startPosition = StartPosition(small)
             /\ run.targetPosition = TargetPosition(small)]_vars

\* C30: in every lighting preset the primary directional light (the first
\* directional light of createLights, the second child of the group) has
\* the preset's higher directional intensity (1.0 in Normal, 1.5 in Bright,
\* 2.0 in Studio) and the other directional lights have lower values; and
\* under Normal the six intensities are those of createLights.
C30_PrimaryLightIsBrightest ==
    Mounted =>
        /\ lights[2] = (IF lightingMode = "bright" THEN 15
                        ELSE IF lightingMode = "studio" THEN 20 ELSE 10)
        /\ \A i \in 3..5 : lights[i] < lights[2]
        /\ lightingMode = "normal" => lights = CreateLights

\* C23: in every state of a mounted viewer, so on every frame its render
\* loop draws, the render camera has the position and the rotation of the
\* stored camera pose, the states right after the camera reset of a load
\* effect included.
C23_CameraFollowsControls == Mounted => camera = CameraOf(controls)

\* C24: whatever the order of scan switches and loader completions, the
\* scene holds at most one model node, and once no load is in flight that
\* node was loaded for the scan now selected and is the one modelRef refers
\* to.
C24_OneModelOfCurrentScan ==
    LET modelNodes == {n \in scene : n.kind = "model"}
    IN /\ Cardinality(modelNodes) <= 1
       /\ loads = {} =>
            \A n \in modelNodes : loadScan[n.id] = scan /\ modelRef = n.id

\* C25: isLoading and error describe the scan now selected: isLoading is
\* true while the load of the current run of the load effect is in flight
\* and false once it has ended, and the end of a load started for an earlier
\* selection changes neither isLoading nor error.
C25_IndicatorsOfCurrentScan ==
    [][/\ (\E l \in loads' : l.id = Len(loadScan')) => isLoading'
       /\ \A l \in loads :
            /\ (LoadEnds(l) /\ l.id = Len(loadScan)) => ~isLoading'
            /\ (LoadEnds(l) /\ l.id # Len(loadScan)) =>
                 (isLoading' = isLoading /\ error' = error)]_vars

\* C27: unmounting the viewer cancels an entrance animation in flight:
\* once the component is unmounted no frame callback of a run runs, so no
\* animation step changes the stored camera pose and no completion callback
\* clears isAnimatingRef.
C27_UnmountCancelsAnimation ==
    [][scan = Unmounted =>
         /\ \A i \in 1..Len(runs) : ~StepOf(i)
         /\ ~StartsRun => (controls' = controls /\ isAnimatingRef' = isAnimatingRef)]_vars

\* C26: in the chat every submitted question gives exactly one user message
\* followed by exactly one assistant message, so user and assistant messages
\* alternate; at most one request of the chat is in flight, a submit while
\* isLoading is true being ignored; and isLoading is true exactly while the
\* last question awaits its answer.
C26_OneAnswerPerQuestion ==
    LET inFlight == {k \in 1..Len(pending) : pending[k].origin = "ui"}
    IN /\ \A i \in 1..Len(messages) :
            messages[i].role = (IF i % 2 = 1 THEN "user" ELSE "assistant")
       /\ Cardinality(inFlight) <= 1
       /\ chatIsLoading <=> inFlight # {}
       /\ chatIsLoading <=> Len(messages) % 2 = 1

\* two questions were asked through the chat and each has its answer
C26_Witness ==
    /\ Len(messages) = 4
    /\ ~chatIsLoading
    /\ \E i \in 1..Len(responses) : responses[i].request.origin = "ui"

\* C21: the list a GET of /api/scans returns, which the page stores as it
\* arrives, has exactly one scan for every folder under public/scans that
\* holds a supported model file (OBJ, GLB or GLTF) and none for any other
\* entry, is sorted by name, and is empty when the scans directory is missing.
C21_ScansOfModelFolders ==
    [][(\E k \in 1..Len(fetches) : FetchScansDone(k)) =>
         LET holdsModel(e) ==
                 /\ e.isDirectory
                 /\ \E i \in 1..Len(e.files) :
                        e.files[i][Len(e.files[i])] \in {"obj", "glb", "gltf"}
             listed == {e.name : e \in {f \in disk.entries : holdsModel(f)}}
         IN /\ \A n \in listed :
                 Cardinality({i \in 1..Len(scans') : scans'[i].folder = n}) = 1
            /\ \A i \in 1..Len(scans') : scans'[i].folder \in listed
            /\ \A i, j \in 1..Len(scans') : i <= j => LocaleBefore(scans'[i], scans'[j])
            /\ ~disk.exists => scans' = << >>]_vars

\* C28: the selected scan is always an element of the dropdown list, under
\* any ordering of uploads and scan-list fetch completions.
C28_SelectedScanInList ==
    selectedScan.id # "" => \E i \in 1..Len(scans) : scans[i].id = selectedScan.id

=============================================================================
